---- MODULE Spec2Model ----
(***************************************************************************)
(* Model of the tropiconnect commodity-price prototype:                    *)
(*   - pipelines/commodity_prices.py : ingest() writes raw JSON payloads   *)
(*     into raw_data.faostat_prices and a run record into                  *)
(*     raw_data.ingestion_runs;                                            *)
(*   - etl/commodity_prices_clean.py : run() reads the raw payloads,       *)
(*     reconciles aliased columns, coerces, drops, de-duplicates,          *)
(*     validates and replaces processed_data.commodity_prices.             *)
(*                                                                         *)
(* Encoding of values.  A JSON scalar of a payload is kept as its text.    *)
(* A missing key and a JSON null both read as None (pandas isna).          *)
(* Timestamps are integers: a price_date is yyyymmddhh, an ingested_at is  *)
(* a clock tick; NaT is the null timestamp.  A price_value is the text of  *)
(* the float it parses to, NaN when it does not parse.                     *)
(***************************************************************************)
EXTENDS Integers, Sequences, FiniteSets, TLC

VARIABLES
    raw_table,       \* raw_data.faostat_prices: Seq of payloads, id = position
    ingestion_runs,  \* raw_data.ingestion_runs: Seq of [status, rows_ingested]
    clock,           \* wall clock, in ticks; one tick passes per call of ingest()
    ing_pc,          \* position of ingest()
    ing_rows,        \* ingest()'s local `rows`: <<>> while unbound, <<n>> once bound
    ing_recorded,    \* status of the run record this call of ingest() wrote
    processed,       \* committed rows of processed_data.commodity_prices
    metadata,        \* committed dataset_metadata row of 'commodity_prices'
    etl_pc,          \* position of run()
    raw_df,          \* run()'s raw_df: the frame _load_raw_dataframe returned
    utcnow,          \* the datetime.utcnow() transform evaluated
    transformed,     \* run()'s transformed frame
    etl_error,       \* the exception run() raised, "none" if none
    tx_prices,       \* commodity_prices as seen inside load's open transaction
    tx_metadata      \* dataset_metadata as seen inside load's open transaction

vars == <<raw_table, ingestion_runs, clock, ing_pc, ing_rows, ing_recorded,
          processed, metadata, etl_pc, raw_df, utcnow, transformed,
          etl_error, tx_prices, tx_metadata>>

ingVars == <<ing_pc, ing_rows, ing_recorded>>
etlVars == <<etl_pc, raw_df, utcnow, transformed, etl_error, tx_prices, tx_metadata>>

\* ---------------------------------------------------------------- bounds
\* Most rows raw_data.faostat_prices holds.
MaxRaw == 2
\* Most rows one call of ingest() persists.
MaxBatch == 2
\* Most calls of ingest().
MaxIngests == 2

\* ---------------------------------------------------------------- values
None == "None"
NaN == "nan"
NaT == -1

\* The rows a source can deliver to ingest() (FAOSTAT API rows, sample CSV
\* rows), before normalize_dataframe.  No two columns of these rows are renamed
\* to one name.  SA/SH: one business key up to the hour of day; SV: the FAOSTAT CSV vintage, its
\* lower-case "value" null; SN: no commodity_id, price_type or source_name;
\* SG: a value that does not parse; SW: the CSV vintage with no "value" at all.
SA == [price_date |-> "2021-01-01", commodity_id |-> "CID1", price_type |-> "wholesale",
       value |-> "12.50", source_name |-> "FAOSTAT"]
SH == [price_date |-> "2021-01-01 06:00", commodity_id |-> "CID1", price_type |-> "wholesale",
       value |-> "14", source_name |-> "FAOSTAT"]
SV == ("year" :> "2021") @@ ("Item Code (CPC)" :> "0711") @@ ("Element" :> "wholesale")
       @@ ("Unit" :> "KES") @@ ("Value" :> "12.50") @@ ("value" :> None)
SW == ("year" :> "2021") @@ ("Item Code (CPC)" :> "0711") @@ ("Value" :> "12.50")
SN == [price_date |-> "2021", value |-> "7"]
SG == [price_date |-> "2021-01-01", value |-> "abc"]

SourceRows == {SA, SH, SV, SW, SN, SG}

\* ---------------------------------------------------------------- frames
\* A raw frame is a Seq of [raw_id, payload]; json_normalize gives it the
\* union of the payloads' keys as columns, NaN where a payload lacks the key.
HasColumn(df, column) == \E i \in 1..Len(df) : column \in DOMAIN df[i].payload

Cell(row, column) ==
    IF column \in DOMAIN row.payload THEN row.payload[column] ELSE None

Column(df, column) == [i \in 1..Len(df) |-> Cell(df[i], column)]

IsNaAll(series) == \A i \in 1..Len(series) : series[i] = None

Series(values) == [kind |-> "series", values |-> values]
Scalar(value) == [kind |-> "scalar", values |-> value]

\* What a frame column assigned from `col` holds in row i (a scalar is broadcast).
At(col, i) == IF col.kind = "scalar" THEN col.values ELSE col.values[i]

RECURSIVE CoalesceFrom(_, _, _, _)
CoalesceFrom(df, candidates, k, default) ==
    IF k > Len(candidates)
    THEN IF default # None
         THEN Scalar(default)
         ELSE Series([i \in 1..Len(df) |-> None])
    ELSE IF HasColumn(df, candidates[k]) /\ ~IsNaAll(Column(df, candidates[k]))
         THEN Series(Column(df, candidates[k]))
         ELSE CoalesceFrom(df, candidates, k + 1, default)

\* Mutant: the first alias whose column exists, all-null or not.
CoalesceFirstPresent(df, candidates, default) ==
    LET present == {k \in 1..Len(candidates) : HasColumn(df, candidates[k])}
    IN IF present # {}
       THEN Series(Column(df, candidates[CHOOSE k \in present : \A m \in present : k <= m]))
       ELSE IF default # None THEN Scalar(default)
       ELSE Series([i \in 1..Len(df) |-> None])

_coalesce_columns(df, candidates, default) == CoalesceFrom(df, candidates, 1, default)

\* ---------------------------------------------------------------- coercion
\* astype(str).str.strip() then pd.to_datetime(errors="coerce"), element by
\* element (no column of the source rows mixes two date formats); the texts
\* carry no UTC offset, so tz_localize(None) leaves the timestamps as parsed.
ToDatetime(text) ==
    CASE text = "2021-01-01" -> 2021010100
      [] text = "2021" -> 2021010100
      [] text = "2021-01-01 06:00" -> 2021010106
      [] text = "0" -> 0
      [] text = "1" -> 1
      [] text = "2" -> 2
      [] text = "3" -> 3
      [] text = "4" -> 4
      [] OTHER -> NaT

\* pd.to_numeric(errors="coerce") then astype(float).
ToNumeric(text) ==
    CASE text = "12.50" -> "12.5"
      [] text = "14" -> "14.0"
      [] text = "7" -> "7.0"
      [] OTHER -> NaN

\* Series.dt.date: the calendar date of a timestamp.
DtDate(ts) == (ts \div 100) * 100

DateAliases == <<"price_date", "timeperiod", "time", "year">>
CommodityIdAliases == <<"commodity_id", "item_code", "Item Code (CPC)">>
CommodityNameAliases == <<"commodity_name", "item", "Item">>
PriceTypeAliases == <<"price_type", "element", "Element">>
PriceCurrencyAliases == <<"price_currency", "unit", "Unit">>
PriceValueAliases == <<"price_value", "Value">>
SourceNameAliases == <<"source_name", "Source">>
IngestedAtAliases == <<"ingested_at">>

\* transform, lines 68-101: the output frame before any row is dropped.
Reconcile(df, now) ==
    LET date_series == _coalesce_columns(df, DateAliases, None)
        commodity_id == _coalesce_columns(df, CommodityIdAliases, None)
        commodity_name == _coalesce_columns(df, CommodityNameAliases, None)
        price_type == _coalesce_columns(df, PriceTypeAliases, None)
        price_currency == _coalesce_columns(df, PriceCurrencyAliases, "USD")
        price_values == _coalesce_columns(df, PriceValueAliases, None)
        source_name == _coalesce_columns(df, SourceNameAliases, "FAOSTAT")
        ingested_series == _coalesce_columns(df, IngestedAtAliases, now)
    IN [i \in 1..Len(df) |->
          [price_date |-> ToDatetime(At(date_series, i)),
           commodity_id |-> At(commodity_id, i),
           commodity_name |-> At(commodity_name, i),
           price_type |-> At(price_type, i),
           price_currency |-> At(price_currency, i),
           price_value |-> ToNumeric(At(price_values, i)),
           source_name |-> At(source_name, i),
           ingested_at |-> ToDatetime(At(ingested_series, i)),
           raw_id |-> df[i].raw_id]]

\* Mutant: dropna(subset=["price_date"]).
DropNaDateOnly(rows) == SelectSeq(rows, LAMBDA r : r.price_date # NaT)

\* transform, line 104: dropna(subset=["price_date", "price_value"]).
DropNa(rows) ==
    SelectSeq(rows, LAMBDA r : r.price_date # NaT /\ r.price_value # NaN)

BusinessKey(r) == <<r.price_date, r.commodity_id, r.price_type, r.source_name>>

Range(seq) == {seq[i] : i \in 1..Len(seq)}

\* Mutant: sort_values("ingested_at") with ascending left at its default.
SortValuesAscending(rows) ==
    LET n == Len(rows)
        valid == {i \in 1..n : rows[i].ingested_at # NaT}
        nat == SelectSeq([i \in 1..n |-> i], LAMBDA i : rows[i].ingested_at = NaT)
        k == Cardinality(valid)
        orders == {p \in [1..k -> valid] :
                     /\ \A i, j \in 1..k : i # j => p[i] # p[j]
                     /\ \A i, j \in 1..k :
                          i < j => rows[p[i]].ingested_at <= rows[p[j]].ingested_at}
    IN {[i \in 1..n |-> IF i <= k THEN rows[p[i]] ELSE rows[nat[i - k]]] : p \in orders}

\* transform, line 111: sort_values("ingested_at", ascending=False) with the
\* default kind="quicksort", which is not stable: rows with equal ingested_at
\* come out in any order; NaT rows go last, in their input order.
SortValues(rows) ==
    LET n == Len(rows)
        valid == {i \in 1..n : rows[i].ingested_at # NaT}
        nat == SelectSeq([i \in 1..n |-> i], LAMBDA i : rows[i].ingested_at = NaT)
        k == Cardinality(valid)
        orders == {p \in [1..k -> valid] :
                     /\ \A i, j \in 1..k : i # j => p[i] # p[j]
                     /\ \A i, j \in 1..k :
                          i < j => rows[p[i]].ingested_at >= rows[p[j]].ingested_at}
    IN {[i \in 1..n |-> IF i <= k THEN rows[p[i]] ELSE rows[nat[i - k]]] : p \in orders}

\* Mutant: a key with a null component equals no other key (SQL's null).
DropDuplicatesNullsDistinct(rows) ==
    LET hasNull(r) == None \in {r.commodity_id, r.price_type, r.source_name}
        first(i) == \/ hasNull(rows[i])
                    \/ \A j \in 1..(i - 1) : BusinessKey(rows[j]) # BusinessKey(rows[i])
        kept == SelectSeq([i \in 1..Len(rows) |-> i], first)
    IN [i \in 1..Len(kept) |-> rows[kept[i]]]

\* Mutant: the mask inverted, keeping the rows whose key was seen before.
DropDuplicatesKeepSeen(rows) ==
    LET seen(i) == \E j \in 1..(i - 1) : BusinessKey(rows[j]) = BusinessKey(rows[i])
        kept == SelectSeq([i \in 1..Len(rows) |-> i], seen)
    IN [i \in 1..Len(kept) |-> rows[kept[i]]]

\* transform, lines 112-115: drop_duplicates(subset=business key, keep="first");
\* null key components compare equal to each other.
DropDuplicates(rows) ==
    LET first(i) == \A j \in 1..(i - 1) : BusinessKey(rows[j]) # BusinessKey(rows[i])
        kept == SelectSeq([i \in 1..Len(rows) |-> i], first)
    IN [i \in 1..Len(kept) |-> rows[kept[i]]]

OutputColumns == {"price_date", "commodity_id", "commodity_name", "price_type",
                  "price_currency", "price_value", "source_name", "ingested_at", "raw_id"}

Frame(columns, rows) == [columns |-> columns, rows |-> rows]

\* pd.DataFrame(): no columns, no rows.
EmptyFrame == Frame({}, <<>>)

\* transform: every frame it can return for raw frame df when utcnow() is now.
transform(df, now) ==
    IF Len(df) = 0
    THEN {EmptyFrame}
    ELSE {Frame(OutputColumns, DropDuplicates(s)) :
            s \in SortValues(DropNa(Reconcile(df, now)))}

\* ---------------------------------------------------------------- ingest
\* Series.to_json() of a datetime: its epoch, as JSON text.
EpochText(t) ==
    CASE t = 0 -> "0"
      [] t = 1 -> "1"
      [] t = 2 -> "2"
      [] t = 3 -> "3"
      [] OTHER -> "4"

\* normalize_dataframe's column_mapping.
Rename(column) ==
    CASE column = "time" -> "price_year"
      [] column = "timeperiod" -> "price_year"
      [] column = "value" -> "price_value"
      [] column = "item_code" -> "commodity_id"
      [] OTHER -> column

SourceColumns(batch) == UNION {DOMAIN batch[i] : i \in 1..Len(batch)}

\* normalize_dataframe raises ValueError when the renamed frame has no price_value.
NormalizeRaises(batch) == "price_value" \notin {Rename(c) : c \in SourceColumns(batch)}

\* normalize_dataframe then persist_raw's row.to_json(): one payload per row,
\* holding every column of the frame (null where the row has no value) and
\* the ingested_at the whole batch shares.
normalize_dataframe(batch, now) ==
    LET columns == SourceColumns(batch)
        renamed == {Rename(c) : c \in columns} \cup {"ingested_at"}
        origin(name) == CHOOSE c \in columns : Rename(c) = name
    IN [i \in 1..Len(batch) |->
          [name \in renamed |->
             IF name = "ingested_at" THEN EpochText(now)
             ELSE IF origin(name) \in DOMAIN batch[i] THEN batch[i][origin(name)]
             ELSE None]]

Batches == UNION {[1..n -> SourceRows] : n \in 1..MaxBatch}

RunRecord(status, rows) == [status |-> status, rows_ingested |-> rows]

\* ingest, lines 126-138: fetch (or the sample) and normalize_dataframe raise
\* before the try block: no run record is written.
IngestNormalizeRaises ==
    /\ ing_pc = "start"
    /\ etl_pc = "start"
    /\ clock < MaxIngests
    /\ \E batch \in Batches : NormalizeRaises(batch)
    /\ clock' = clock + 1
    /\ ing_pc' = "raised"
    /\ UNCHANGED <<raw_table, ingestion_runs, ing_rows, ing_recorded, processed, metadata>>
    /\ UNCHANGED etlVars

\* ingest, line 140: persist_raw commits every row of the batch in one transaction.
IngestPersist ==
    /\ ing_pc = "start"
    /\ etl_pc = "start"
    /\ clock < MaxIngests
    /\ \E batch \in Batches :
         /\ ~NormalizeRaises(batch)
         /\ Len(raw_table) + Len(batch) <= MaxRaw
         /\ raw_table' = raw_table \o normalize_dataframe(batch, clock + 1)
         /\ ing_rows' = <<Len(batch)>>
    /\ clock' = clock + 1
    /\ ing_pc' = "record_success"
    /\ UNCHANGED <<ingestion_runs, ing_recorded, processed, metadata>>
    /\ UNCHANGED etlVars

\* ingest, line 140: persist_raw raises (the database refuses); nothing is committed.
IngestPersistRaises ==
    /\ ing_pc = "start"
    /\ etl_pc = "start"
    /\ clock < MaxIngests
    /\ clock' = clock + 1
    /\ ing_pc' = "record_failed"
    /\ UNCHANGED <<raw_table, ingestion_runs, ing_rows, ing_recorded, processed, metadata>>
    /\ UNCHANGED etlVars

\* ingest, line 141: record_run("success", rows) commits the run record.
IngestRecordSuccess ==
    /\ ing_pc = "record_success"
    /\ ingestion_runs' = Append(ingestion_runs, RunRecord("success", ing_rows[1]))
    /\ ing_recorded' = "success"
    /\ ing_pc' = "returned"
    /\ UNCHANGED <<raw_table, clock, ing_rows, processed, metadata>>
    /\ UNCHANGED etlVars

\* ingest, lines 141-143: record_run("success", rows) raises; the except clause
\* of the same try block catches it.
IngestRecordSuccessRaises ==
    /\ ing_pc = "record_success"
    /\ ing_pc' = "record_failed"
    /\ UNCHANGED <<raw_table, ingestion_runs, clock, ing_rows, ing_recorded, processed, metadata>>
    /\ UNCHANGED etlVars

\* ingest, lines 145-146: record_run("failed", rows=0, ...) commits, then re-raise.
IngestRecordFailed ==
    /\ ing_pc = "record_failed"
    /\ ingestion_runs' = Append(ingestion_runs, RunRecord("failed", 0))
    /\ ing_recorded' = "failed"
    /\ ing_pc' = "raised"
    /\ UNCHANGED <<raw_table, clock, ing_rows, processed, metadata>>
    /\ UNCHANGED etlVars

\* ingest, line 145: record_run("failed", ...) raises itself; that exception propagates.
IngestRecordFailedRaises ==
    /\ ing_pc = "record_failed"
    /\ ing_pc' = "raised"
    /\ UNCHANGED <<raw_table, ingestion_runs, clock, ing_rows, ing_recorded, processed, metadata>>
    /\ UNCHANGED etlVars

\* The process running ingest() ends; the next call starts with fresh locals.
IngestExit ==
    /\ ing_pc \in {"returned", "raised"}
    /\ ing_pc' = "start"
    /\ ing_rows' = <<>>
    /\ ing_recorded' = "none"
    /\ UNCHANGED <<raw_table, ingestion_runs, clock, processed, metadata>>
    /\ UNCHANGED etlVars

IngestNext ==
    \/ IngestNormalizeRaises
    \/ IngestPersist
    \/ IngestPersistRaises
    \/ IngestRecordSuccess
    \/ IngestRecordSuccessRaises
    \/ IngestRecordFailed
    \/ IngestRecordFailedRaises
    \/ IngestExit

\* ---------------------------------------------------------------- etl run
\* CommodityPriceSchema: every field is a required column; these are nullable=False.
NotNullable == {"price_date", "price_value", "raw_id"}

IsNull(r, column) ==
    CASE column = "price_date" -> r.price_date = NaT
      [] column = "price_value" -> r.price_value = NaN
      [] OTHER -> FALSE

\* CommodityPriceSchema.validate(frame, lazy=True): every failure case it collects,
\* as <<check, column, row>> (row 0: the column as a whole).
SchemaErrors(frame) ==
    {<<"column_in_dataframe", c, 0>> : c \in OutputColumns \ frame.columns}
    \cup {<<"not_nullable", at[1], at[2]>> :
             at \in {at \in (NotNullable \cap frame.columns) \X (1..Len(frame.rows)) :
                       IsNull(frame.rows[at[2]], at[1])}}

\* load, line 128: the frame's records, price_date cut to its calendar date.
Records(frame) ==
    [i \in 1..Len(frame.rows) |->
       [frame.rows[i] EXCEPT !.price_date = DtDate(frame.rows[i].price_date)]]

\* The table's primary key (price_date, commodity_id, price_type, source_name):
\* its columns are NOT NULL and no two rows share it.
PrimaryKeyViolated(records) ==
    \/ \E i \in 1..Len(records) :
         None \in {records[i].commodity_id, records[i].price_type, records[i].source_name}
    \/ \E i, j \in 1..Len(records) :
         i # j /\ BusinessKey(records[i]) = BusinessKey(records[j])

MetadataRow(rows) ==
    [dataset_name |-> "commodity_prices", row_count |-> rows,
     notes |-> "Generated by etl.commodity_prices_clean"]

\* _load_raw_dataframe: every raw row with its id; pd.DataFrame() when there is none.
EtlLoadRaw ==
    /\ etl_pc = "start"
    /\ ing_pc = "start"
    /\ raw_df' = [i \in 1..Len(raw_table) |-> [raw_id |-> i, payload |-> raw_table[i]]]
    /\ etl_pc' = "transform"
    /\ UNCHANGED <<raw_table, ingestion_runs, clock, processed, metadata>>
    /\ UNCHANGED <<utcnow, transformed, etl_error, tx_prices, tx_metadata>>
    /\ UNCHANGED ingVars

\* run, line 207: transform(raw_df).
EtlTransform ==
    /\ etl_pc = "transform"
    /\ utcnow' = EpochText(clock)
    /\ transformed' \in transform(raw_df, EpochText(clock))
    /\ etl_pc' = "validate"
    /\ UNCHANGED <<raw_table, ingestion_runs, clock, processed, metadata>>
    /\ UNCHANGED <<raw_df, etl_error, tx_prices, tx_metadata>>
    /\ UNCHANGED ingVars

\* run, line 208: CommodityPriceSchema.validate raises SchemaErrors, or returns.
EtlValidate ==
    /\ etl_pc = "validate"
    /\ IF SchemaErrors(transformed) # {}
       THEN etl_pc' = "raised" /\ etl_error' = "SchemaErrors"
       ELSE etl_pc' = "load" /\ etl_error' = etl_error
    /\ UNCHANGED <<raw_table, ingestion_runs, clock, processed, metadata>>
    /\ UNCHANGED <<raw_df, utcnow, transformed, tx_prices, tx_metadata>>
    /\ UNCHANGED ingVars

\* load, lines 123-125: an empty frame returns 0 before any statement runs.
LoadEmpty ==
    /\ etl_pc = "load"
    /\ Len(transformed.rows) = 0
    /\ etl_pc' = "returned"
    /\ UNCHANGED <<raw_table, ingestion_runs, clock, processed, metadata>>
    /\ UNCHANGED <<raw_df, utcnow, transformed, etl_error, tx_prices, tx_metadata>>
    /\ UNCHANGED ingVars

\* load, lines 130-148: engine.begin() opens the transaction over the committed
\* tables; create table if not exists.
LoadBegin ==
    /\ etl_pc = "load"
    /\ Len(transformed.rows) > 0
    /\ tx_prices' = processed
    /\ tx_metadata' = metadata
    /\ etl_pc' = "truncate"
    /\ UNCHANGED <<raw_table, ingestion_runs, clock, processed, metadata>>
    /\ UNCHANGED <<raw_df, utcnow, transformed, etl_error>>
    /\ UNCHANGED ingVars

\* load, line 150: truncate table processed_data.commodity_prices.
LoadTruncate ==
    /\ etl_pc = "truncate"
    /\ tx_prices' = <<>>
    /\ etl_pc' = "insert"
    /\ UNCHANGED <<raw_table, ingestion_runs, clock, processed, metadata>>
    /\ UNCHANGED <<raw_df, utcnow, transformed, etl_error, tx_metadata>>
    /\ UNCHANGED ingVars

\* load, lines 151-179: insert every record; a primary-key violation raises
\* and the with block rolls the transaction back.
LoadInsert ==
    /\ etl_pc = "insert"
    /\ IF PrimaryKeyViolated(Records(transformed))
       THEN /\ etl_pc' = "raised"
            /\ etl_error' = "IntegrityError"
            /\ tx_prices' = <<>>
            /\ tx_metadata' = <<>>
       ELSE /\ etl_pc' = "metadata"
            /\ tx_prices' = tx_prices \o Records(transformed)
            /\ UNCHANGED <<etl_error, tx_metadata>>
    /\ UNCHANGED <<raw_table, ingestion_runs, clock, processed, metadata>>
    /\ UNCHANGED <<raw_df, utcnow, transformed>>
    /\ UNCHANGED ingVars

\* load, lines 181-199: upsert the dataset_metadata row of 'commodity_prices'.
LoadMetadata ==
    /\ etl_pc = "metadata"
    /\ tx_metadata' = <<MetadataRow(Len(transformed.rows))>>
    /\ etl_pc' = "commit"
    /\ UNCHANGED <<raw_table, ingestion_runs, clock, processed, metadata>>
    /\ UNCHANGED <<raw_df, utcnow, transformed, etl_error, tx_prices>>
    /\ UNCHANGED ingVars

\* load, line 130: the with block ends and commits the transaction.
LoadCommit ==
    /\ etl_pc = "commit"
    /\ processed' = tx_prices
    /\ metadata' = tx_metadata
    /\ tx_prices' = <<>>
    /\ tx_metadata' = <<>>
    /\ etl_pc' = "returned"
    /\ UNCHANGED <<raw_table, ingestion_runs, clock>>
    /\ UNCHANGED <<raw_df, utcnow, transformed, etl_error>>
    /\ UNCHANGED ingVars

\* Mutant: no transaction around the statements (each one autocommits), so a
\* failure leaves what ran before it.
LoadRaisesNoRollback ==
    /\ etl_pc \in {"truncate", "insert", "metadata", "commit"}
    /\ processed' = tx_prices
    /\ metadata' = tx_metadata
    /\ tx_prices' = <<>>
    /\ tx_metadata' = <<>>
    /\ etl_pc' = "raised"
    /\ etl_error' = "OperationalError"
    /\ UNCHANGED <<raw_table, ingestion_runs, clock>>
    /\ UNCHANGED <<raw_df, utcnow, transformed>>
    /\ UNCHANGED ingVars

\* load, line 130: a statement or the commit fails in the database (connection
\* lost, dataset_metadata missing); the with block rolls back and re-raises.
LoadRaises ==
    /\ etl_pc \in {"truncate", "insert", "metadata", "commit"}
    /\ tx_prices' = <<>>
    /\ tx_metadata' = <<>>
    /\ etl_pc' = "raised"
    /\ etl_error' = "OperationalError"
    /\ UNCHANGED <<raw_table, ingestion_runs, clock, processed, metadata>>
    /\ UNCHANGED <<raw_df, utcnow, transformed>>
    /\ UNCHANGED ingVars

\* The process running run() ends; the next run starts with fresh locals.
EtlExit ==
    /\ etl_pc \in {"returned", "raised"}
    /\ etl_pc' = "start"
    /\ raw_df' = <<>>
    /\ utcnow' = EpochText(0)
    /\ transformed' = EmptyFrame
    /\ etl_error' = "none"
    /\ UNCHANGED <<tx_prices, tx_metadata>>
    /\ UNCHANGED <<raw_table, ingestion_runs, clock, processed, metadata>>
    /\ UNCHANGED ingVars

EtlNext ==
    \/ EtlLoadRaw
    \/ EtlTransform
    \/ EtlValidate
    \/ LoadEmpty
    \/ LoadBegin
    \/ LoadTruncate
    \/ LoadInsert
    \/ LoadMetadata
    \/ LoadCommit
    \/ LoadRaises
    \/ EtlExit

\* ---------------------------------------------------------------- system
\* ingest() and run() are two programs that share raw_data.faostat_prices alone:
\* ingest() appends to it in one transaction, run() reads it in one SELECT and
\* works on that snapshot.  Their steps commute, so a call of either is taken
\* while the other is at rest (the guards on "start" of the first step of each).
Init ==
    /\ raw_table = <<>>
    /\ ingestion_runs = <<>>
    /\ clock = 0
    /\ ing_pc = "start"
    /\ ing_rows = <<>>
    /\ ing_recorded = "none"
    /\ processed = <<>>
    /\ metadata = <<>>
    /\ etl_pc = "start"
    /\ raw_df = <<>>
    /\ utcnow = EpochText(0)
    /\ transformed = EmptyFrame
    /\ etl_error = "none"
    /\ tx_prices = <<>>
    /\ tx_metadata = <<>>

Next == IngestNext \/ EtlNext

Spec == Init /\ [][Next]_vars

\* ---------------------------------------------------------------- claims
\* transform has just returned its frame to run().
Transformed == etl_pc = "validate"

\* _load_raw_dataframe has just returned a raw frame with rows to run().
Loaded == etl_pc = "transform" /\ Len(raw_df) > 0

\* The rows transform de-duplicates: reconciled, coerced, required fields present.
Inputs == DropNa(Reconcile(raw_df, utcnow))

RowOrders(n) == {p \in [1..n -> 1..n] : \A i, j \in 1..n : i # j => p[i] # p[j]}

\* C1: for a non-empty raw record set, transform's output holds at most one row
\* per business key (price_date, commodity_id, price_type, source_name), keys
\* with null components included.
C1_UniqueBusinessKey ==
    (Transformed /\ Len(raw_df) > 0) =>
        \A i, j \in 1..Len(transformed.rows) :
            i # j => BusinessKey(transformed.rows[i]) # BusinessKey(transformed.rows[j])

\* Two input rows whose key has a null commodity_id were reduced to one.
C1_Witness ==
    /\ Transformed
    /\ Len(Inputs) = 2
    /\ Inputs[1].commodity_id = None
    /\ BusinessKey(Inputs[1]) = BusinessKey(Inputs[2])
    /\ Len(transformed.rows) = 1

\* C2: among the input rows sharing a business key the one with the greatest
\* ingested_at is kept: every output row is an input row, and every input row
\* has an output row of its key whose ingested_at is at least its own.
C2_LatestObservedWins ==
    (Transformed /\ Len(raw_df) > 0) =>
        /\ Range(transformed.rows) \subseteq Range(Inputs)
        /\ \A q \in Range(Inputs) :
             \E r \in Range(transformed.rows) :
                /\ BusinessKey(r) = BusinessKey(q)
                /\ \/ q.ingested_at = NaT
                   \/ r.ingested_at # NaT /\ r.ingested_at >= q.ingested_at

\* Two input rows of one key, ingested at different times; the later one is the output.
C2_Witness ==
    /\ Transformed
    /\ Len(Inputs) = 2
    /\ BusinessKey(Inputs[1]) = BusinessKey(Inputs[2])
    /\ Inputs[1].ingested_at < Inputs[2].ingested_at
    /\ transformed.rows = <<Inputs[2]>>

\* A stable sort by ingested_at descending, NaT last.
StableSortDescending(rows) ==
    LET n == Len(rows)
        before(i, j) ==
            \/ rows[i].ingested_at # NaT /\ rows[j].ingested_at = NaT
            \/ rows[i].ingested_at > rows[j].ingested_at /\ rows[j].ingested_at # NaT
            \/ rows[i].ingested_at = rows[j].ingested_at /\ i < j
        at(k) == CHOOSE i \in 1..n : Cardinality({j \in 1..n : before(j, i)}) = k - 1
    IN [k \in 1..n |-> rows[at(k)]]

\* C3: the de-duplication sorts stably by ingested_at descending and keeps the
\* first row per business key, so among rows of one key with equal ingested_at
\* the earliest in input order is kept, and the output is in descending
\* ingested_at order of the kept rows.
C3_StableFirstSeenWins ==
    (Transformed /\ Len(raw_df) > 0) =>
        transformed.rows = DropDuplicates(StableSortDescending(Inputs))

\* The alias lists and defaults transform passes to _coalesce_columns.
AliasConfigs ==
    {[candidates |-> DateAliases, default |-> None],
     [candidates |-> CommodityIdAliases, default |-> None],
     [candidates |-> CommodityNameAliases, default |-> None],
     [candidates |-> PriceTypeAliases, default |-> None],
     [candidates |-> PriceCurrencyAliases, default |-> "USD"],
     [candidates |-> PriceValueAliases, default |-> None],
     [candidates |-> SourceNameAliases, default |-> "FAOSTAT"],
     [candidates |-> IngestedAtAliases, default |-> utcnow]}

\* The aliases that exist in df with at least one non-null value.
Qualifying(df, candidates) ==
    {k \in 1..Len(candidates) :
        \E i \in 1..Len(df) :
            candidates[k] \in DOMAIN df[i].payload /\ df[i].payload[candidates[k]] # None}

\* C4: _coalesce_columns returns the column of the first alias that exists with
\* a non-null value somewhere in the record set, in whatever order the rows
\* come; with no such alias the default, and with no default a column of nulls
\* as long as the record set.
C4_CoalesceFirstNonEmptyAlias ==
    Loaded =>
        \A cfg \in AliasConfigs : \A p \in RowOrders(Len(raw_df)) :
            LET df == [i \in 1..Len(raw_df) |-> raw_df[p[i]]]
                got == _coalesce_columns(df, cfg.candidates, cfg.default)
                qualifying == Qualifying(raw_df, cfg.candidates)
                best == CHOOSE k \in qualifying : \A m \in qualifying : k <= m
            IN IF qualifying # {}
               THEN /\ got.kind = "series"
                    /\ got.values = Column(df, cfg.candidates[best])
               ELSE IF cfg.default # None
               THEN got.kind = "scalar" /\ got.values = cfg.default
               ELSE /\ got.kind = "series"
                    /\ Len(got.values) = Len(df)
                    /\ \A i \in 1..Len(df) : got.values[i] = None

\* price_value exists but is all null, so "Value" supplies the prices; no
\* commodity_name alias exists; source_name falls to its default.
C4_Witness ==
    /\ Loaded
    /\ HasColumn(raw_df, "price_value")
    /\ IsNaAll(Column(raw_df, "price_value"))
    /\ _coalesce_columns(raw_df, PriceValueAliases, None) = Series(Column(raw_df, "Value"))
    /\ ~IsNaAll(Column(raw_df, "Value"))
    /\ Qualifying(raw_df, CommodityNameAliases) = {}
    /\ Qualifying(raw_df, SourceNameAliases) = {}

\* C5: de-duplicating an already de-duplicated record set (sort by ingested_at
\* descending, keep the first per business key) yields the same set of records.
C5_DedupIdempotent ==
    (Transformed /\ Len(raw_df) > 0) =>
        \A s \in SortValues(transformed.rows) :
            Range(DropDuplicates(s)) = Range(transformed.rows)

\* A de-duplicated output of two rows, and one that lost a duplicate.
C5_Witness ==
    /\ Transformed
    /\ \/ Len(transformed.rows) = 2
       \/ Len(transformed.rows) = 1 /\ Len(Inputs) = 2

\* C6: for a non-empty raw record set every output row of transform has a
\* price_date, a price_value and a raw_id, so validation finds no
\* nullability failure.
C6_NoNullRequiredFields ==
    (Transformed /\ Len(raw_df) > 0) =>
        /\ \A i \in 1..Len(transformed.rows) :
              /\ transformed.rows[i].price_date # NaT
              /\ transformed.rows[i].price_value # NaN
              /\ transformed.rows[i].raw_id \in 1..Len(raw_df)
        /\ {e \in SchemaErrors(transformed) : e[1] = "not_nullable"} = {}

\* A row without a price_value was dropped and another row survived.
C6_Witness ==
    /\ Transformed
    /\ \E i \in 1..Len(raw_df) : Reconcile(raw_df, utcnow)[i].price_value = NaN
    /\ Len(transformed.rows) >= 1

\* C7: when the raw table has no rows, run() passes transform and validation
\* without raising.
C7_EmptyInputNoValidationError ==
    (etl_pc # "start" /\ Len(raw_df) = 0) => etl_error = "none"

\* C8: a validation failure stops run() before load opens a transaction and
\* leaves commodity_prices and dataset_metadata as they were; any failure
\* inside load leaves them as they were too; and they change only by the
\* commit that puts all the records and the metadata row in place together.
C8_AbortBeforePersistence ==
    /\ [](etl_error = "SchemaErrors" =>
            etl_pc = "raised" /\ tx_prices = <<>> /\ tx_metadata = <<>>)
    /\ [][etl_pc' = "raised" => processed' = processed /\ metadata' = metadata]_vars
    /\ [][(processed' # processed \/ metadata' # metadata) =>
            /\ etl_pc = "commit" /\ etl_pc' = "returned"
            /\ processed' = Records(transformed)
            /\ metadata' = <<MetadataRow(Len(transformed.rows))>>]_vars

\* load failed after an earlier run had filled the table; the earlier rows and
\* their metadata row are still there.
C8_Witness ==
    /\ etl_pc = "raised"
    /\ etl_error \in {"OperationalError", "IntegrityError"}
    /\ processed # <<>>
    /\ metadata = <<MetadataRow(Len(processed))>>

\* C9: whenever run() returns without error, commodity_prices holds exactly the
\* records computed in that run, also when there are none.
C9_FullReplaceOnSuccess ==
    etl_pc = "returned" => processed = Records(transformed)

\* C10: the run record ingest() writes agrees with what it persisted:
\* 'success' with the number of rows inserted, 'failed' only when no raw row of
\* the call was committed, and 'failed' is followed by the re-raise.
C10_RunRecordAgrees ==
    /\ ing_recorded = "success" =>
          /\ ing_rows # <<>>
          /\ ingestion_runs[Len(ingestion_runs)] = RunRecord("success", ing_rows[1])
    /\ ing_recorded = "failed" =>
          /\ ing_rows = <<>>
          /\ ing_pc = "raised"

====
